---- MODULE Spec2Model ----
(***************************************************************************)
(* A model of the car_rent web application (webapp/views.py).              *)
(*                                                                         *)
(* Every action is one HTTP request handled to completion by one view.     *)
(* The state is the persisted data (the Car table, the User table), the    *)
(* browser session, and the last request with the response and template    *)
(* context its view produced.  The framework calls the views make          *)
(* (QuerySet slicing, filter, first; Paginator.get_page; the login guard;  *)
(* LoginView's redirect of authenticated users; CreateView's form          *)
(* handling) are written out as operators that compute what those calls    *)
(* compute.                                                                *)
(***************************************************************************)
EXTENDS Integers, Sequences, FiniteSets

VARIABLES cars, users, session, request, response, context

vars == <<cars, users, session, request, response, context>>

-----------------------------------------------------------------------------
(* Bounds of the model. *)

\* The most rows the Car table holds.
MaxCars == 9

\* Integer page arguments range over -MaxPageArg .. MaxPageArg.
MaxPageArg == 8

-----------------------------------------------------------------------------
(* Small helpers. *)

Min(a, b) == IF a < b THEN a ELSE b

Max(a, b) == IF a > b THEN a ELSE b

Range(s) == {s[i] : i \in 1..Len(s)}

\* math.ceil(a / b) for a >= 0, b > 0.
CeilDiv(a, b) == (a + b - 1) \div b

-----------------------------------------------------------------------------
(* Strings of the query string, as sequences of characters. *)

Digit == <<"0", "1", "2", "3", "4", "5", "6", "7", "8", "9">>

IsDigit(c) == \E i \in 1..10 : Digit[i] = c

DigitVal(c) == CHOOSE i \in 0..9 : Digit[i + 1] = c

\* str(n) for a natural number n.
RECURSIVE NatStr(_)
NatStr(n) ==
    IF n < 10 THEN <<Digit[n + 1]>>
    ELSE Append(NatStr(n \div 10), Digit[(n % 10) + 1])

\* str(n) for an integer n: what a link "?page=n" carries.
DecStr(n) == IF n < 0 THEN <<"-">> \o NatStr(-n) ELSE NatStr(n)

\* str.strip() of whitespace, which int() applies to its argument.
RECURSIVE Strip(_)
Strip(s) ==
    IF s = <<>> THEN s
    ELSE IF Head(s) = " " THEN Strip(Tail(s))
    ELSE IF s[Len(s)] = " " THEN Strip(SubSeq(s, 1, Len(s) - 1))
    ELSE s

\* The value of a string of digits and underscores, read left to right.
RECURSIVE DigitsValue(_, _)
DigitsValue(s, acc) ==
    IF s = <<>> THEN acc
    ELSE IF Head(s) = "_" THEN DigitsValue(Tail(s), acc)
    ELSE DigitsValue(Tail(s), 10 * acc + DigitVal(Head(s)))

\* Whether s is what int() accepts after the sign: digits, with single
\* underscores allowed between two digits.
IsDigitGroup(s) ==
    /\ Len(s) > 0
    /\ IsDigit(s[1])
    /\ IsDigit(s[Len(s)])
    /\ \A i \in 1..Len(s) : IsDigit(s[i]) \/ s[i] = "_"
    /\ \A i \in 1..(Len(s) - 1) : ~(s[i] = "_" /\ s[i + 1] = "_")

\* int() replaced by a reader of the leading digits, which takes "2.5" for 2.
ParseInt_leading_digits(s) ==
    IF s # <<>> /\ IsDigit(s[1])
    THEN [ok |-> TRUE, value |-> DigitVal(s[1])]
    ELSE [ok |-> FALSE, value |-> 0]

\* int(s) for a str s: [ok |-> TRUE, value |-> n], or ok = FALSE where int()
\* raises ValueError.
ParseInt(s) ==
    LET t == Strip(s)
        signed == t # <<>> /\ Head(t) \in {"-", "+"}
        body == IF signed THEN Tail(t) ELSE t
    IN  IF IsDigitGroup(body)
        THEN [ok |-> TRUE,
              value |-> IF signed /\ Head(t) = "-"
                        THEN 0 - DigitsValue(body, 0)
                        ELSE DigitsValue(body, 0)]
        ELSE [ok |-> FALSE, value |-> 0]

-----------------------------------------------------------------------------
(* Requests. *)

Anonymous == "AnonymousUser"

\* A query-string parameter that is not given: request.GET.get(...) is None.
NoParam == [present |-> FALSE, value |-> <<>>]

Param(s) == [present |-> TRUE, value |-> s]

\* The body of a request without form data.
NoPost == [username |-> "", password1 |-> "", password2 |-> ""]

\* Page arguments that are integers written the way str() writes them.
IntegerPages == -MaxPageArg..MaxPageArg

\* Page arguments that int() rejects.
NonIntegerStrings ==
    { <<>>,
      <<"a", "b", "c">>,
      <<"2", ".", "5">>,
      <<"2", ".", "0">>,
      <<"-">>,
      <<"_", "1">>,
      <<"1", " ", "2">> }

\* Page arguments that int() accepts although str() never writes them so.
OtherIntegerStrings ==
    { <<"+", "2">>, <<" ", "3", " ">>, <<"0", "0", "2">>, <<"1", "_", "0">> }

PageParams ==
    {NoParam}
    \cup {Param(DecStr(n)) : n \in IntegerPages}
    \cup {Param(s) : s \in NonIntegerStrings \cup OtherIntegerStrings}

Req(path, method, page, next, post) ==
    [path |-> path, method |-> method, user |-> session,
     page |-> page, next |-> next, POST |-> post]

-----------------------------------------------------------------------------
(* Responses and template contexts. *)

\* Car's None: the value of main_car when no row matches.
None == [pk |-> 0, is_main |-> FALSE]

\* The context entry page_objs of a view that sets none.
NoPage ==
    [number |-> 0, object_list |-> <<>>, num_pages |-> 0, count |-> 0,
     has_next |-> FALSE, has_previous |-> FALSE]

NoContext ==
    [cars |-> <<>>, main_car |-> None, object_list |-> <<>>,
     page_objs |-> NoPage]

Response(kind, template, location, next, errors, exception) ==
    [kind |-> kind, template |-> template, location |-> location,
     next |-> next, errors |-> errors, exception |-> exception]

\* render(request, template, context) / TemplateResponse.
Render(template) == Response("render", template, "", "", FALSE, "")

\* A form view's form_invalid: the template again, with the form's errors.
RenderWithErrors(template) == Response("render", template, "", "", TRUE, "")

\* HttpResponseRedirect(location).
Redirect(location) == Response("redirect", "", location, "", FALSE, "")

\* An exception that leaves the view: the handler answers with an error.
ServerError(exception) == Response("error", "", "", "", FALSE, exception)

NoResponse == Response("none", "", "", "", FALSE, "")

-----------------------------------------------------------------------------
(* The Car table and the QuerySet calls the views make. *)

\* Car.objects.all(): the rows in the table's default order.
Car_objects_all == cars

\* The slice taken one row too long.
QuerySet_slice_inclusive(qs, k) == SubSeq(qs, 1, Min(k + 1, Len(qs)))

\* qs[:k]: the first k rows of qs, all of them when there are fewer.
QuerySet_slice(qs, k) == SubSeq(qs, 1, Min(k, Len(qs)))

\* qs.filter(is_main=True): the flagged rows, in qs's order.
QuerySet_filter_is_main(qs) == SelectSeq(qs, LAMBDA c : c.is_main)

\* qs.last() in place of qs.first().
QuerySet_last(qs) ==
    IF qs = <<>> THEN None
    ELSE CHOOSE c \in Range(qs) : \A d \in Range(qs) : c.pk >= d.pk

\* qs.first(): None for no rows; of an unordered queryset, the row with the
\* lowest primary key.
QuerySet_first(qs) ==
    IF qs = <<>> THEN None
    ELSE CHOOSE c \in Range(qs) : \A d \in Range(qs) : c.pk <= d.pk

-----------------------------------------------------------------------------
(* Paginator(object_list, per_page), with orphans and                      *)
(* allow_empty_first_page left at their defaults.                          *)

per_page == 4

orphans == 0

allow_empty_first_page == TRUE

Paginator_count(object_list) == Len(object_list)

Paginator_num_pages(object_list) ==
    IF Paginator_count(object_list) = 0 /\ ~allow_empty_first_page THEN 0
    ELSE CeilDiv(Max(1, Paginator_count(object_list) - orphans), per_page)

\* validate_number taking a number below 1 for no number at all.
Paginator_validate_number_low_as_invalid(object_list, number) ==
    LET parsed == IF number.present THEN ParseInt(number.value)
                  ELSE [ok |-> FALSE, value |-> 0]
    IN  IF ~parsed.ok \/ parsed.value < 1
        THEN [exception |-> "PageNotAnInteger", number |-> 0]
        ELSE IF parsed.value > Paginator_num_pages(object_list)
        THEN [exception |-> "EmptyPage", number |-> 0]
        ELSE [exception |-> "", number |-> parsed.value]

\* Paginator.validate_number: the page number, or the exception raised.
Paginator_validate_number(object_list, number) ==
    LET parsed == IF number.present THEN ParseInt(number.value)
                  ELSE [ok |-> FALSE, value |-> 0]
    IN  IF ~parsed.ok
        THEN [exception |-> "PageNotAnInteger", number |-> 0]
        ELSE IF parsed.value < 1
        THEN [exception |-> "EmptyPage", number |-> 0]
        ELSE IF parsed.value > Paginator_num_pages(object_list)
        THEN [exception |-> "EmptyPage", number |-> 0]
        ELSE [exception |-> "", number |-> parsed.value]

\* Paginator.page with the slice's end taken one row short.
Paginator_page_short(object_list, n) ==
    LET count == Paginator_count(object_list)
        bottom == (n - 1) * per_page
        top == IF bottom + per_page + orphans >= count THEN count
               ELSE bottom + per_page - 1
    IN  [number |-> n,
         object_list |-> SubSeq(object_list, bottom + 1, top),
         num_pages |-> Paginator_num_pages(object_list),
         count |-> count,
         has_next |-> n < Paginator_num_pages(object_list),
         has_previous |-> n > 1]

\* Paginator.page(n) for a valid n: the Page and what it reports.
Paginator_page(object_list, n) ==
    LET count == Paginator_count(object_list)
        bottom == (n - 1) * per_page
        top == IF bottom + per_page + orphans >= count THEN count
               ELSE bottom + per_page
    IN  [number |-> n,
         object_list |-> SubSeq(object_list, bottom + 1, top),
         num_pages |-> Paginator_num_pages(object_list),
         count |-> count,
         has_next |-> n < Paginator_num_pages(object_list),
         has_previous |-> n > 1]

\* get_page answering every invalid number with page 1.
Paginator_get_page_first(object_list, number) ==
    LET v == Paginator_validate_number(object_list, number)
    IN  IF v.exception # ""
        THEN Paginator_page(object_list, 1)
        ELSE Paginator_page(object_list, v.number)

\* Paginator.get_page: page 1 for what is no integer, the last page for an
\* integer without a page.
Paginator_get_page(object_list, number) ==
    LET v == Paginator_validate_number(object_list, number)
    IN  IF v.exception = "PageNotAnInteger"
        THEN Paginator_page(object_list, 1)
        ELSE IF v.exception = "EmptyPage"
        THEN Paginator_page(object_list, Paginator_num_pages(object_list))
        ELSE Paginator_page(object_list, v.number)

-----------------------------------------------------------------------------
(* The views on cars. *)

HomeLimit == 3

\* The administrative interface adds a row to the Car table.
AdminCreateCar ==
    /\ Len(cars) < MaxCars
    /\ \E flag \in BOOLEAN :
          cars' = Append(cars, [pk |-> Len(cars) + 1, is_main |-> flag])
    /\ request' = Req("/admin/webapp/car/add/", "POST", NoParam, "", NoPost)
    /\ response' = Redirect("/admin/webapp/car/")
    /\ context' = NoContext
    /\ UNCHANGED <<users, session>>

\* def index(request)
index ==
    /\ request' = Req("/", "GET", NoParam, "", NoPost)
    /\ context' = [NoContext EXCEPT
          !.cars = QuerySet_slice(Car_objects_all, HomeLimit),
          !.main_car = QuerySet_first(QuerySet_filter_is_main(Car_objects_all))]
    /\ response' = Render("webapp/index.html")
    /\ UNCHANGED <<cars, users, session>>

\* CarListView.get_queryset
CarListView_get_queryset == Car_objects_all

\* CarListView.get_context_data
CarListView_get_context_data(page_number) ==
    LET object_list == CarListView_get_queryset
    IN  [NoContext EXCEPT
          !.object_list = object_list,
          !.cars = object_list,
          !.page_objs = Paginator_get_page(object_list, page_number)]

\* CarListView.get
CarListView ==
    \E page \in PageParams :
       /\ request' = Req("/cars/", "GET", page, "", NoPost)
       /\ context' = CarListView_get_context_data(page)
       /\ response' = Render("webapp/cars.html")
       /\ UNCHANGED <<cars, users, session>>

-----------------------------------------------------------------------------
(* The specification of the catalog: the Car table and the views on it.    *)

Init ==
    /\ cars = <<>>
    /\ users = {}
    /\ session = Anonymous
    /\ request = Req("", "", NoParam, "", NoPost)
    /\ response = NoResponse
    /\ context = NoContext

Next == AdminCreateCar \/ index \/ CarListView

Spec == Init /\ [][Next]_vars

-----------------------------------------------------------------------------
(* Properties of the homepage (specification Spec).                        *)

\* The positions of the rows flagged is_main.
FlaggedPositions == {i \in 1..Len(cars) : cars[i].is_main}

\* Whether the last request handled was one for the homepage.
HomepageServed == request.path = "/" /\ response.kind # "none"

\* C1: whatever the Car table holds, the homepage is rendered, and its
\* main_car is the first row in table order with is_main set, and None
\* exactly when no row has the flag.
C1_MainCarIsFirstFlagged ==
    HomepageServed =>
       /\ response = Render("webapp/index.html")
       /\ (context.main_car = None) <=> (FlaggedPositions = {})
       /\ \A i \in FlaggedPositions :
             (\A j \in FlaggedPositions : i <= j) => context.main_car = cars[i]

\* C1's case: several flagged rows, the first row not among them.
C1_Witness ==
    /\ HomepageServed
    /\ Cardinality(FlaggedPositions) >= 2
    /\ 1 \notin FlaggedPositions
    /\ context.main_car # None

\* C2: the homepage's cars are exactly the first min(3, N) rows of the
\* table in its order: at most 3, none twice, none for an empty table, and
\* the page is rendered.
C2_HomeCarsAreFirstThree ==
    HomepageServed =>
       /\ response = Render("webapp/index.html")
       /\ Len(context.cars) = (IF Len(cars) < 3 THEN Len(cars) ELSE 3)
       /\ Len(context.cars) <= 3
       /\ \A i \in 1..Len(context.cars) : context.cars[i] = cars[i]
       /\ \A i, j \in 1..Len(context.cars) :
             context.cars[i] = context.cars[j] => i = j

\* C2's case: more than 3 rows, 3 of them shown.
C2_Witness ==
    /\ HomepageServed
    /\ Len(cars) > 3
    /\ Len(context.cars) = 3

\* C9: after any sequence of car creations, the homepage's cars are the
\* most recently created min(3, N) rows.
C9_HomeCarsAreMostRecent ==
    HomepageServed =>
       Range(context.cars) =
          {cars[i] : i \in Max(1, Len(cars) - 2)..Len(cars)}

-----------------------------------------------------------------------------
(* Properties of the catalog (specification Spec).                         *)

\* Whether the last request handled was one for the catalog.
CatalogServed == request.path = "/cars/" /\ response.kind # "none"

\* The number of pages of 4 of the table: ceil(N / 4), and 1 for no rows.
PageCount == IF Len(cars) = 0 THEN 1 ELSE (Len(cars) + 3) \div 4

\* Rows 4(k-1)+1 .. 4k of the table, as far as there are rows.
PageRows(k) == SubSeq(cars, 4 * (k - 1) + 1, Min(4 * k, Len(cars)))

\* The integers the page arguments outside str()'s form stand for.
OtherIntegerValue(s) ==
    CASE s = <<"+", "2">> -> 2
      [] s = <<" ", "3", " ">> -> 3
      [] s = <<"0", "0", "2">> -> 2
      [] s = <<"1", "_", "0">> -> 10

\* Whether the catalog request's page argument is the integer n.
PageArgumentIs(n) ==
    /\ request.page.present
    /\ \/ (n \in IntegerPages /\ request.page.value = DecStr(n))
       \/ (request.page.value \in OtherIntegerStrings
             /\ OtherIntegerValue(request.page.value) = n)

\* The integers a page argument of the model may stand for.
PageArguments == IntegerPages \cup {2, 3, 10}

\* C3: a page argument that is an integer above the page count yields the
\* last page, max(1, ceil(N / P)), in a rendered response.
C3_AboveRangeGivesLastPage ==
    CatalogServed =>
       \A n \in PageArguments :
          (PageArgumentIs(n) /\ n > CeilDiv(Len(cars), per_page)) =>
             /\ response = Render("webapp/cars.html")
             /\ context.page_objs.number = Max(1, CeilDiv(Len(cars), per_page))
             /\ context.page_objs.object_list = PageRows(PageCount)

\* C3's case: page ceil(N / P) + 5 of a catalog of three pages.
C3_Witness ==
    /\ CatalogServed
    /\ Len(cars) = 9
    /\ PageArgumentIs(CeilDiv(Len(cars), per_page) + 5)
    /\ context.page_objs.number = 3

\* C4: a page argument that is absent or no integer yields page 1 in a
\* rendered response.
C4_NonIntegerGivesFirstPage ==
    (CatalogServed
       /\ (~request.page.present \/ request.page.value \in NonIntegerStrings)) =>
          /\ response = Render("webapp/cars.html")
          /\ context.page_objs.number = 1
          /\ context.page_objs.object_list = PageRows(1)

\* C4's case: a fractional number asked of a catalog of several pages.
C4_Witness ==
    /\ CatalogServed
    /\ request.page = Param(<<"2", ".", "5">>)
    /\ Len(cars) > 4
    /\ context.page_objs.number = 1

\* C5 as claimed: an integer page argument outside 1..pageCount yields the
\* nearest valid page: the first for one below 1, the last for one above.
C5_OutOfRangeGivesNearestPage ==
    CatalogServed =>
       \A n \in PageArguments :
          (PageArgumentIs(n) /\ (n < 1 \/ n > PageCount)) =>
             /\ response = Render("webapp/cars.html")
             /\ context.page_objs.number = (IF n < 1 THEN 1 ELSE PageCount)

\* C5 as amended: an integer page argument outside 1..pageCount, below 1
\* or above pageCount alike, yields the last page in a rendered response.
C5_OutOfRangeGivesLastPage ==
    CatalogServed =>
       \A n \in PageArguments :
          (PageArgumentIs(n) /\ (n < 1 \/ n > PageCount)) =>
             /\ response = Render("webapp/cars.html")
             /\ context.page_objs.number = PageCount
             /\ context.page_objs.object_list = PageRows(PageCount)

\* C5's case: page 0 or a negative page asked of a catalog of several pages.
C5_Witness ==
    /\ CatalogServed
    /\ \E n \in IntegerPages : n < 1 /\ PageArgumentIs(n)
    /\ PageCount > 1
    /\ context.page_objs.number = PageCount

\* Pages k..pageCount of the paginator, one after the other.
RECURSIVE PagesFrom(_)
PagesFrom(k) ==
    IF k > Paginator_num_pages(cars) THEN <<>>
    ELSE Paginator_page(cars, k).object_list \o PagesFrom(k + 1)

\* C10: the catalog is split into pages of 4 that partition it in order:
\* each page but the last holds 4 rows, the last 1 to 4 (none only for an
\* empty catalog, which has one empty page), the pages one after the other
\* are the catalog, the page returned reports has-previous exactly above
\* page 1 and has-next exactly below the page count, and cars and
\* object_list stay the whole catalog.
C10_PagesPartitionCatalog ==
    CatalogServed =>
       LET page == context.page_objs
       IN  /\ context.cars = cars
           /\ context.object_list = cars
           /\ page.num_pages = PageCount
           /\ page.count = Len(cars)
           /\ page.number \in 1..PageCount
           /\ page.object_list = PageRows(page.number)
           /\ page.has_previous <=> (page.number > 1)
           /\ page.has_next <=> (page.number < PageCount)
           /\ Paginator_num_pages(cars) = PageCount
           /\ \A k \in 1..PageCount :
                 /\ Paginator_page(cars, k).object_list = PageRows(k)
                 /\ k < PageCount =>
                       Len(Paginator_page(cars, k).object_list) = 4
                 /\ (k = PageCount /\ Len(cars) > 0) =>
                       Len(Paginator_page(cars, k).object_list) \in 1..4
                 /\ (k = PageCount /\ Len(cars) = 0) =>
                       Paginator_page(cars, k).object_list = <<>>
           /\ PagesFrom(1) = cars

\* C10's case: the middle page of a catalog of three pages.
C10_Witness ==
    /\ CatalogServed
    /\ Len(cars) = 9
    /\ context.page_objs.number = 2
    /\ Len(context.page_objs.object_list) = 4
    /\ context.page_objs.has_next
    /\ context.page_objs.has_previous

-----------------------------------------------------------------------------
(* Accounts, sessions and the project's settings.                          *)

Usernames == {"ann", "bob"}

Passwords == {"pw1", "pw2"}

\* The ?next= targets a request may carry; "" is none.
NextTargets == {"", "/contact/", "/login/"}

\* settings.LOGIN_URL: where the login guard sends an anonymous user.
LOGIN_URL == "/login/"

\* settings.LOGIN_REDIRECT_URL: where a login without ?next= leads.
LOGIN_REDIRECT_URL == "/"

is_authenticated(user) == user # Anonymous

\* RegisterUserForm.is_valid: both passwords given and equal, and the
\* username given and not taken.
RegisterUserForm_is_valid(data) ==
    /\ data.username # ""
    /\ data.password1 # ""
    /\ data.password1 = data.password2
    /\ \A u \in users : u.username # data.username

\* RegisterUserForm.save: the account the form creates.
RegisterUserForm_save(data) ==
    [username |-> data.username, password |-> data.password1]

\* AuthenticationForm.is_valid: authenticate(username, password).
AuthenticationForm_is_valid(data) ==
    [username |-> data.username, password |-> data.password1] \in users

\* AccessMixin.handle_no_permission for an anonymous user:
\* redirect_to_login(path, LOGIN_URL, "next").
redirect_to_login(path) == [Redirect(LOGIN_URL) EXCEPT !.next = path]

-----------------------------------------------------------------------------
(* The views without data. *)

TemplateView(path, template) ==
    /\ request' = Req(path, "GET", NoParam, "", NoPost)
    /\ response' = Render(template)
    /\ context' = NoContext
    /\ UNCHANGED <<cars, users, session>>

AboutView == TemplateView("/about/", "webapp/about.html")

ServicesView == TemplateView("/services/", "webapp/services.html")

RegisterDoneView == TemplateView("/register_done/", "webapp/register_done.html")

\* ContactView declared without the login guard.
ContactView_bases_unguarded == {"TemplateView"}

\* class ContactView(LoginRequiredMixin, TemplateView): its base classes.
ContactView_bases == {"LoginRequiredMixin", "TemplateView"}

\* ContactView: LoginRequiredMixin.dispatch, then TemplateView.get.
ContactView ==
    /\ request' = Req("/contact/", "GET", NoParam, "", NoPost)
    /\ response' =
          IF "LoginRequiredMixin" \in ContactView_bases
             /\ ~is_authenticated(session)
          THEN redirect_to_login("/contact/")
          ELSE Render("webapp/contact.html")
    /\ context' = NoContext
    /\ UNCHANGED <<cars, users, session>>

-----------------------------------------------------------------------------
(* Login and logout. *)

\* LoginView's default for redirect_authenticated_user.
redirect_authenticated_user_default == FALSE

\* CRLoginView.redirect_authenticated_user
redirect_authenticated_user == TRUE

\* LoginView.get_success_url: the ?next= target, else LOGIN_REDIRECT_URL.
LoginView_get_success_url(next) ==
    IF next # "" THEN next ELSE LOGIN_REDIRECT_URL

\* CRLoginView: LoginView.dispatch, then its get or post.  The result is
\* the response and the session's user after the request.
CRLoginView_dispatch(method, next, data) ==
    IF redirect_authenticated_user /\ is_authenticated(session)
    THEN IF LoginView_get_success_url(next) = "/login/"
         THEN [response |-> ServerError("ValueError"), session |-> session]
         ELSE [response |-> Redirect(LoginView_get_success_url(next)),
               session |-> session]
    ELSE IF method = "GET"
    THEN [response |-> Render("webapp/login.html"), session |-> session]
    ELSE IF AuthenticationForm_is_valid(data)
    THEN [response |-> Redirect(LoginView_get_success_url(next)),
          session |-> data.username]
    ELSE [response |-> RenderWithErrors("webapp/login.html"),
          session |-> session]

LoginData ==
    {[username |-> u, password1 |-> p, password2 |-> ""] :
        u \in Usernames, p \in Passwords}

CRLoginView ==
    \E method \in {"GET", "POST"}, next \in NextTargets :
    \E data \in IF method = "GET" THEN {NoPost} ELSE LoginData :
       LET result == CRLoginView_dispatch(method, next, data)
       IN  /\ request' = Req("/login/", method, NoParam, next, data)
           /\ response' = result.response
           /\ session' = result.session
           /\ context' = NoContext
           /\ UNCHANGED <<cars, users>>

\* class CRLogoutView(LoginRequiredMixin, LogoutView): its base classes.
CRLogoutView_bases == {"LoginRequiredMixin", "LogoutView"}

\* CRLogoutView: LoginRequiredMixin.dispatch, then LogoutView: the session
\* is flushed, and the answer is the ?next= target or the template.
CRLogoutView_dispatch(next) ==
    IF "LoginRequiredMixin" \in CRLogoutView_bases /\ ~is_authenticated(session)
    THEN [response |-> redirect_to_login("/logout/"), session |-> session]
    ELSE IF next # ""
    THEN [response |-> Redirect(next), session |-> Anonymous]
    ELSE [response |-> Render("webapp/logout.html"), session |-> Anonymous]

CRLogoutView ==
    \E next \in NextTargets :
       LET result == CRLogoutView_dispatch(next)
       IN  /\ request' = Req("/logout/", "POST", NoParam, next, NoPost)
           /\ response' = result.response
           /\ session' = result.session
           /\ context' = NoContext
           /\ UNCHANGED <<cars, users>>

-----------------------------------------------------------------------------
(* Registration. *)

\* RegisterUserView.success_url: reverse_lazy('webapp:register_done').
RegisterUserView_success_url == "/register_done/"

\* A post that saves the account whatever the form says.
RegisterUserView_post_unvalidated(data) ==
    [response |-> Redirect(RegisterUserView_success_url),
     users |-> users \cup {RegisterUserForm_save(data)}]

\* RegisterUserView.post (CreateView): form_valid saves the form's account
\* and redirects to success_url; form_invalid renders the form again.  The
\* result is the response and the accounts after the request.
RegisterUserView_post(data) ==
    IF RegisterUserForm_is_valid(data)
    THEN [response |-> Redirect(RegisterUserView_success_url),
          users |-> users \cup {RegisterUserForm_save(data)}]
    ELSE [response |-> RenderWithErrors("webapp/register.html"),
          users |-> users]

RegisterData ==
    {[username |-> u, password1 |-> p, password2 |-> q] :
        u \in Usernames \cup {""}, p \in Passwords, q \in Passwords}

RegisterUserView ==
    \E method \in {"GET", "POST"} :
    \E data \in IF method = "GET" THEN {NoPost} ELSE RegisterData :
       LET result == IF method = "GET"
                     THEN [response |-> Render("webapp/register.html"),
                           users |-> users]
                     ELSE RegisterUserView_post(data)
       IN  /\ request' = Req("/register/", method, NoParam, "", data)
           /\ response' = result.response
           /\ users' = result.users
           /\ context' = NoContext
           /\ UNCHANGED <<cars, session>>

-----------------------------------------------------------------------------
(* The specification of accounts and sessions: registration, login,        *)
(* logout and the pages that need no data.                                 *)

AuthNext ==
    \/ AboutView
    \/ ServicesView
    \/ ContactView
    \/ CRLoginView
    \/ CRLogoutView
    \/ RegisterUserView
    \/ RegisterDoneView

AuthSpec == Init /\ [][AuthNext]_vars

-----------------------------------------------------------------------------
(* Properties of accounts and sessions (specification AuthSpec).           *)

\* C6: a request without an authenticated session to a login-guarded view
\* (the contact page, the logout view) is answered with a redirect to the
\* login page, renders nothing and leaves session and accounts as they
\* were; the contact page is rendered only for an authenticated session.
C6_GuardedViewsRedirectAnonymous ==
    [][/\ (request'.path \in {"/contact/", "/logout/"} /\ session = Anonymous) =>
             /\ response'.kind = "redirect"
             /\ response'.location = "/login/"
             /\ response'.next = request'.path
             /\ response'.template = ""
             /\ session' = session
             /\ users' = users
       /\ response'.template = "webapp/contact.html" =>
             /\ request'.path = "/contact/"
             /\ session # Anonymous
             /\ session' = session]_vars

\* C6's case: the contact page asked for without a session, accounts
\* existing, and answered with the redirect to the login page.
C6_Witness ==
    /\ request.path = "/contact/"
    /\ request.user = Anonymous
    /\ session = Anonymous
    /\ users # {}
    /\ response.kind = "redirect"
    /\ response.location = "/login/"

\* C7: a registration POST the form accepts creates exactly one account
\* and redirects to the confirmation page; one the form rejects renders
\* the form again with errors, without a redirect, and leaves the accounts
\* as they were.
C7_RegistrationCreatesOnlyWhenValid ==
    [][(request'.path = "/register/" /\ request'.method = "POST") =>
          IF RegisterUserForm_is_valid(request'.POST)
          THEN /\ response'.kind = "redirect"
               /\ response'.location = "/register_done/"
               /\ Cardinality(users') = Cardinality(users) + 1
               /\ \E a \in users' :
                     /\ a \notin users
                     /\ a.username = request'.POST.username
                     /\ users' = users \cup {a}
          ELSE /\ response'.kind = "render"
               /\ response'.template = "webapp/register.html"
               /\ response'.errors
               /\ users' = users]_vars

\* C7's case: a second account registered and the confirmation page next.
C7_Witness ==
    /\ request.path = "/register/"
    /\ request.method = "POST"
    /\ response.location = "/register_done/"
    /\ Cardinality(users) = 2
    /\ \E a \in users : a.username = request.POST.username

\* Where a request to the login view asks to be led after the login.
LoginTarget == IF request.next # "" THEN request.next ELSE LOGIN_REDIRECT_URL

\* Whether the last request was one to the login view by a session that
\* was authenticated already.
AuthenticatedLoginRequest ==
    request.path = "/login/" /\ request.user # Anonymous

\* C8 as claimed: a request to the login view by an authenticated session
\* is answered with a redirect away from the login page, without the login
\* form, and the session stays that of the same user.
C8_AuthenticatedLoginRedirectsAway ==
    AuthenticatedLoginRequest =>
       /\ response.kind = "redirect"
       /\ response.location # "/login/"
       /\ response.template # "webapp/login.html"
       /\ session = request.user

\* C8 as amended: such a request never gets the login form and leaves the
\* session that of the same user; it is answered with a redirect away from
\* the login page unless the target asked for is the login page itself,
\* and then with the error of a redirection loop.
C8_AuthenticatedLoginNeverPrompts ==
    AuthenticatedLoginRequest =>
       /\ response.kind # "render"
       /\ response.template # "webapp/login.html"
       /\ session = request.user
       /\ IF LoginTarget = "/login/"
          THEN response.kind = "error" /\ response.exception = "ValueError"
          ELSE /\ response.kind = "redirect"
               /\ response.location = LoginTarget
               /\ response.location # "/login/"

\* C8's case: an authenticated session posts another user's credentials
\* to the login view and is redirected, still as itself.
C8_Witness ==
    /\ AuthenticatedLoginRequest
    /\ request.method = "POST"
    /\ request.POST.username # request.user
    /\ AuthenticationForm_is_valid(request.POST)
    /\ response.kind = "redirect"
    /\ session = request.user

====
